---- MODULE Spec2Model ----
(***************************************************************************)
(* Model of src/app.py (Smart Converter, a Streamlit script).              *)
(*                                                                         *)
(* Python strings are modelled as sequences of one-character strings, so   *)
(* that lower(), split(), replace(), isdigit(), "in" (substring) and       *)
(* f-string formatting are computed character by character, as the code    *)
(* computes them.  Two characters that TLA+ source cannot spell are named: *)
(* "sup2" is U+00B2 (SUPERSCRIPT TWO, a character for which str.isdigit()  *)
(* is True and float() raises ValueError) and "approx" is U+2248.          *)
(*                                                                         *)
(* A Python float is modelled as an exact decimal [m, e] = m / 10^e; the   *)
(* literals used by the inputs below (5, 2.5, 5.5, 100, 1.0) give products *)
(* whose shortest repr() in IEEE double arithmetic is the exact decimal.   *)
(***************************************************************************)
EXTENDS Integers, Sequences, FiniteSets, TLC

VARIABLES
    GEMINI_API_KEY,   \* app.py:13  TRUE iff the environment holds a key
    converter_type,   \* app.py:138 sidebar radio (widget state)
    messages,         \* app.py:156 st.session_state.messages
    pc,               \* position of the current script run
    event,            \* the user interaction that started the current run
    ai_calls,         \* model.generate_content calls issued in this run
    rate_calls,       \* requests.get calls issued in this run
    inflight,         \* outbound calls issued and not yet returned
    fb_calls,         \* handle_conversion_fallback invocations in this run
    ai_resp,          \* what the last AI call of this run returned
    shown,            \* what get_gemini_response returned in this run
    rates,            \* app.py:230 the script's rates variable
    uncaught,         \* an exception left the script (Streamlit reports it)
    fb_prompt,        \* harness: argument of handle_conversion_fallback
    fb_out,           \* harness: its outcome
    http_resp,        \* harness: the rate API's answer
    rates_out         \* harness: outcome of get_currency_rates

vars ==
    <<GEMINI_API_KEY, converter_type, messages, pc, event, ai_calls,
      rate_calls, inflight, fb_calls, ai_resp, shown, rates, uncaught,
      fb_prompt, fb_out, http_resp, rates_out>>

uiVars ==
    <<GEMINI_API_KEY, converter_type, messages, pc, event, ai_calls,
      rate_calls, inflight, fb_calls, ai_resp, shown, rates, uncaught>>

fbVars ==
    <<fb_prompt, fb_out>>

rateVars ==
    <<http_resp, rates_out>>

----------------------------------------------------------------------------
(* Bounds of the model. *)

\* Words per enumerated input text of the fallback harness.
MaxWords ==
    3

\* Chat submissions per session.
MaxChats ==
    2

----------------------------------------------------------------------------
(* Python str operations. *)

UpperLetters ==
    <<"A", "B", "C", "D", "E", "F", "G", "H", "I", "J", "K", "L", "M",
      "N", "O", "P", "Q", "R", "S", "T", "U", "V", "W", "X", "Y", "Z">>

LowerLetters ==
    <<"a", "b", "c", "d", "e", "f", "g", "h", "i", "j", "k", "l", "m",
      "n", "o", "p", "q", "r", "s", "t", "u", "v", "w", "x", "y", "z">>

AsciiDigits ==
    {"0", "1", "2", "3", "4", "5", "6", "7", "8", "9"}

\* Characters c with c.isdigit(): the decimal digits and U+00B2.
IsDigitChars ==
    AsciiDigits \cup {"sup2"}

Whitespace ==
    {" ", "\n"}

LowerChar(c) ==
    IF \E k \in 1..26 : UpperLetters[k] = c
    THEN LowerLetters[CHOOSE k \in 1..26 : UpperLetters[k] = c]
    ELSE c

\* s.lower()
lower(s) ==
    [i \in 1..Len(s) |-> LowerChar(s[i])]

\* The positions at which a word of s starts: a non-whitespace character
\* at the start of s or after a whitespace character.
WordStarts(s) ==
    {i \in 1..Len(s) :
        /\ s[i] \notin Whitespace
        /\ (i = 1 \/ s[i - 1] \in Whitespace)}

\* The position at which the word of s that starts at i ends.
WordEnd(s, i) ==
    CHOOSE e \in i..Len(s) :
        /\ \A j \in i..e : s[j] \notin Whitespace
        /\ (e = Len(s) \/ s[e + 1] \in Whitespace)

\* s.split(): the maximal runs of non-whitespace characters, in order
split(s) ==
    LET starts == WordStarts(s)
    IN  [k \in 1..Cardinality(starts) |->
           LET i == CHOOSE i \in starts :
                        Cardinality({j \in starts : j < i}) = k - 1
           IN  SubSeq(s, i, WordEnd(s, i))]

\* sub in s
Contains(s, sub) ==
    \E i \in 1..(Len(s) - Len(sub) + 1) : SubSeq(s, i, i + Len(sub) - 1) = sub

\* word.replace('.', '', 1): the first '.' removed
ReplaceFirstDot(word) ==
    IF \E i \in 1..Len(word) : word[i] = "."
    THEN LET k == CHOOSE i \in 1..Len(word) :
                      /\ word[i] = "."
                      /\ \A j \in 1..(i - 1) : word[j] # "."
         IN  SubSeq(word, 1, k - 1) \o SubSeq(word, k + 1, Len(word))
    ELSE word

\* s.isdigit(): non-empty and every character is a digit character
isdigit(s) ==
    /\ s # <<>>
    /\ \A i \in 1..Len(s) : s[i] \in IsDigitChars

\* The scan's test, app.py:111 and :118
ScanNumeric(word) ==
    isdigit(ReplaceFirstDot(word))

----------------------------------------------------------------------------
(* Python float: parsing, multiplication, repr. *)

DigitVal(c) ==
    CASE c = "0" -> 0 [] c = "1" -> 1 [] c = "2" -> 2 [] c = "3" -> 3
      [] c = "4" -> 4 [] c = "5" -> 5 [] c = "6" -> 6 [] c = "7" -> 7
      [] c = "8" -> 8 [] c = "9" -> 9

NumDots(word) ==
    Cardinality({i \in 1..Len(word) : word[i] = "."})

\* float(word) returns (rather than raising ValueError) for the words made
\* of ASCII digits and at most one '.', with at least one digit.
FloatParses(word) ==
    /\ \A i \in 1..Len(word) : word[i] \in AsciiDigits \cup {"."}
    /\ NumDots(word) <= 1
    /\ \E i \in 1..Len(word) : word[i] \in AsciiDigits

RECURSIVE Pow10(_)
Pow10(n) ==
    IF n = 0 THEN 1 ELSE 10 * Pow10(n - 1)

RECURSIVE Normalize(_)
Normalize(x) ==
    IF x.e > 0 /\ x.m % 10 = 0
    THEN Normalize([m |-> x.m \div 10, e |-> x.e - 1])
    ELSE x

RECURSIVE ParseFrom(_, _, _, _, _)
ParseFrom(word, i, m, e, seenDot) ==
    IF i > Len(word)
    THEN Normalize([m |-> m, e |-> e])
    ELSE IF word[i] = "."
         THEN ParseFrom(word, i + 1, m, e, TRUE)
         ELSE ParseFrom(word, i + 1, 10 * m + DigitVal(word[i]),
                        IF seenDot THEN e + 1 ELSE e, seenDot)

\* float(word), for a word with FloatParses(word)
float(word) ==
    ParseFrom(word, 1, 0, 0, FALSE)

\* x * y
Mul(x, y) ==
    Normalize([m |-> x.m * y.m, e |-> x.e + y.e])

RECURSIVE IntStr(_)
IntStr(n) ==
    IF n < 10
    THEN <<CHOOSE c \in AsciiDigits : DigitVal(c) = n>>
    ELSE Append(IntStr(n \div 10), CHOOSE c \in AsciiDigits : DigitVal(c) = n % 10)

RECURSIVE PadLeft(_, _)
PadLeft(s, n) ==
    IF Len(s) >= n THEN s ELSE PadLeft(<<"0">> \o s, n)

\* repr(x), which an f-string applies to a float: "5.0", "2.325"
FloatRepr(x) ==
    LET n == Normalize(x)
    IN  IntStr(n.m \div Pow10(n.e)) \o <<".">> \o
        (IF n.e = 0 THEN <<"0">> ELSE PadLeft(IntStr(n.m % Pow10(n.e)), n.e))

----------------------------------------------------------------------------
(* Literals of src/app.py. *)

kw_meter ==
    <<"m", "e", "t", "e", "r">>

kw_centimeter ==
    <<"c", "e", "n", "t", "i", "m", "e", "t", "e", "r">>

kw_dollar ==
    <<"d", "o", "l", "l", "a", "r">>

kw_usd ==
    <<"u", "s", "d">>

kw_euro ==
    <<"e", "u", "r", "o">>

kw_eur ==
    <<"e", "u", "r">>

kw_pkr ==
    <<"p", "k", "r">>

kw_rupee ==
    <<"r", "u", "p", "e", "e">>

\* app.py:114  the factor 100
Hundred ==
    [m |-> 100, e |-> 0]

\* app.py:121  the factor 0.93
EurRate ==
    [m |-> 93, e |-> 2]

\* app.py:123  the factor 278.50
PkrRate ==
    [m |-> 2785, e |-> 1]

\* app.py:127
AdvisoryText ==
    <<"I", " ", "c", "o", "u", "l", "d", "n", "'", "t", " ", "p", "r", "o",
      "c", "e", "s", "s", " ", "t", "h", "i", "s", " ", "c", "o", "n", "v",
      "e", "r", "s", "i", "o", "n", ".", " ", "P", "l", "e", "a", "s", "e",
      " ", "t", "r", "y", " ", "u", "s", "i", "n", "g", " ", "t", "h", "e",
      " ", "s", "e", "l", "e", "c", "t", "i", "o", "n", " ", "i", "n", "t",
      "e", "r", "f", "a", "c", "e", ".">>

\* app.py:133  the f-string's text before {text}
PromptHead ==
    <<"C", "o", "n", "v", "e", "r", "t", " ">>

\* app.py:133-134  the f-string's text after {text}
PromptTail ==
    <<".", " ", "R", "e", "s", "p", "o", "n", "d", " ", "o", "n", "l", "y",
      " ", "w", "i", "t", "h", " ", "t", "h", "e", " ", "c", "o", "n", "v",
      "e", "r", "t", "e", "d", " ", "v", "a", "l", "u", "e", " ", "a", "n",
      "d", " ", "u", "n", "i", "t", "s", ",", " ", "n", "o", "t", "h", "i",
      "n", "g", " ", "e", "l", "s", "e", ".", " ", "\n", " ", " ", " ", " ",
      "F", "o", "r", "m", "a", "t", ":", " ", "[", "v", "a", "l", "u", "e",
      "]", " ", "[", "u", "n", "i", "t", "]", ".", " ", "E", "x", "a", "m",
      "p", "l", "e", ":", " ", "'", "5", " ", "m", "e", "t", "e", "r", "s",
      "'", " ", "o", "r", " ", "'", "1", "0", ".", "5", " ", "U", "S", "D",
      "'">>

----------------------------------------------------------------------------
(* handle_conversion_fallback, app.py:104-129. *)

\* A call's outcome: a returned string, or a raised exception.
Returned(s) ==
    [exc |-> FALSE, text |-> s]

Raised ==
    [exc |-> TRUE, text |-> <<>>]

\* app.py:114
MeterResult(value) ==
    FloatRepr(value) \o <<" ", "m", "e", "t", "e", "r", "s", " ", "=", " ">>
      \o FloatRepr(Mul(value, Hundred))
      \o <<" ", "c", "e", "n", "t", "i", "m", "e", "t", "e", "r", "s">>

\* app.py:121
EurResult(value) ==
    FloatRepr(value) \o <<" ", "U", "S", "D", " ", "approx", " ">>
      \o FloatRepr(Mul(value, EurRate)) \o <<" ", "E", "U", "R">>

\* app.py:123
PkrResult(value) ==
    FloatRepr(value) \o <<" ", "U", "S", "D", " ", "approx", " ">>
      \o FloatRepr(Mul(value, PkrRate)) \o <<" ", "P", "K", "R">>

\* app.py:110-115: the loop of the meter branch, from word i on.  It yields
\* the value of result after the loop, or the ValueError of float(word).
RECURSIVE MeterLoop(_, _, _)
MeterLoop(words, i, prompt) ==
    IF i > Len(words)
    THEN Returned(<<>>)
    ELSE IF ScanNumeric(words[i])
         THEN IF ~FloatParses(words[i])
              THEN Raised
              ELSE IF Contains(prompt, kw_meter) /\ Contains(prompt, kw_centimeter)
                   THEN Returned(MeterResult(float(words[i])))
                   ELSE Returned(<<>>)
         ELSE MeterLoop(words, i + 1, prompt)

\* app.py:117-124: the loop of the dollar branch
RECURSIVE DollarLoop(_, _, _)
DollarLoop(words, i, prompt) ==
    IF i > Len(words)
    THEN Returned(<<>>)
    ELSE IF ScanNumeric(words[i])
         THEN IF ~FloatParses(words[i])
              THEN Raised
              ELSE IF Contains(prompt, kw_euro) \/ Contains(prompt, kw_eur)
                   THEN Returned(EurResult(float(words[i])))
                   ELSE IF Contains(prompt, kw_pkr) \/ Contains(prompt, kw_rupee)
                        THEN Returned(PkrResult(float(words[i])))
                        ELSE Returned(<<>>)
         ELSE DollarLoop(words, i + 1, prompt)

\* app.py:126-129
OrAdvisory(r) ==
    IF r.exc THEN r
    ELSE IF r.text = <<>> THEN Returned(AdvisoryText) ELSE r

handle_conversion_fallback(prompt) ==
    LET words == split(lower(prompt))
    IN  IF Contains(prompt, kw_meter) /\ Contains(prompt, kw_centimeter)
        THEN OrAdvisory(MeterLoop(words, 1, prompt))
        ELSE IF Contains(prompt, kw_dollar) \/ Contains(prompt, kw_usd)
             THEN OrAdvisory(DollarLoop(words, 1, prompt))
             ELSE Returned(AdvisoryText)

\* create_ai_prompt without its template.
create_ai_prompt_bare(text) ==
    text

\* app.py:132-134
create_ai_prompt(text) ==
    PromptHead \o text \o PromptTail

----------------------------------------------------------------------------
(* get_gemini_response, app.py:66-81. *)

\* What model.generate_content / response.text did: returned text, or raised.
AIReturned(t) ==
    [ok |-> TRUE, text |-> t]

AIFailed ==
    [ok |-> FALSE, text |-> <<>>]

\* app.py:68-77: the number of generate_content calls one request issues
generate_content_calls(key) ==
    IF key THEN 1 ELSE 0

\* get_gemini_response with "return response.text.lower()" at :78.
get_gemini_response_lowered(prompt, key, ai) ==
    IF ~key
    THEN LET r == handle_conversion_fallback(prompt)
         IN  [exc |-> r.exc, text |-> r.text, fb |-> 1]
    ELSE IF ai.ok
         THEN [exc |-> FALSE, text |-> lower(ai.text), fb |-> 0]
         ELSE LET r == handle_conversion_fallback(prompt)
              IN  [exc |-> r.exc, text |-> r.text, fb |-> 1]

\* The outcome of get_gemini_response(prompt) when the key is set or not and
\* the AI call, if made, ended as ai: what it returns or raises, and how
\* often it invoked handle_conversion_fallback.
get_gemini_response(prompt, key, ai) ==
    IF ~key
    THEN LET r == handle_conversion_fallback(prompt)
         IN  [exc |-> r.exc, text |-> r.text, fb |-> 1]
    ELSE IF ai.ok
         THEN [exc |-> FALSE, text |-> ai.text, fb |-> 0]
         ELSE LET r == handle_conversion_fallback(prompt)
              IN  [exc |-> r.exc, text |-> r.text, fb |-> 1]

----------------------------------------------------------------------------
(* get_currency_rates, app.py:83-102. *)

Rate(m, e) ==
    [t |-> "float", m |-> m, e |-> e]

Str(s) ==
    [t |-> "str", s |-> s]

\* app.py:101
CachedStamp ==
    "Using cached rates (may not be current)"

\* app.py:98-102: the dict literal returned by the except clause
FallbackRates ==
    [USD |-> Rate(10, 1), EUR |-> Rate(93, 2), GBP |-> Rate(79, 2),
     JPY |-> Rate(15034, 2), CAD |-> Rate(135, 2), AUD |-> Rate(153, 2),
     CNY |-> Rate(721, 2), INR |-> Rate(8312, 2), PKR |-> Rate(27850, 2),
     timestamp |-> Str(CachedStamp)]

\* d[key] = value on a dict
SetItem(d, key, value) ==
    [k \in (DOMAIN d) \cup {key} |-> IF k = key THEN value ELSE d[k]]

\* The "rates" member of a response body, when it is a JSON object.
RatesObject(resp) ==
    resp.rates.table

\* The try block, app.py:88-95, on an answer resp of requests.get: the
\* exception it raises ("none" when it reaches the return of :93) and the
\* dict it then returns.  net is FALSE when the request raised; json is
\* FALSE when the body is not a JSON object; result, rates and time are
\* the members "result", "rates" and "time_last_update_utc" of the body,
\* each possibly absent, rates possibly not an object.
rates_try(resp) ==
    LET raised ==
          IF ~resp.net                       THEN "RequestException" \* :88
          ELSE IF ~resp.json                 THEN "JSONDecodeError"  \* :89
          ELSE IF resp.result = "absent"     THEN "KeyError"         \* :90
          ELSE IF resp.result # "success"    THEN "Exception"        \* :95
          ELSE IF resp.rates.kind = "absent" THEN "KeyError"         \* :91
          ELSE IF resp.time = "absent"       THEN "KeyError"         \* :92
          ELSE IF resp.rates.kind # "object" THEN "TypeError"        \* :92
          ELSE "none"
    IN  [raised |-> raised,
         table  |-> IF raised = "none"
                    THEN SetItem(RatesObject(resp), "timestamp", Str(resp.time))
                    ELSE <<>>]

\* The exceptions "except KeyError" alone would catch.
get_currency_rates_KeyErrorOnly(resp) ==
    LET r == rates_try(resp)
    IN  IF r.raised = "none" THEN [exc |-> FALSE, table |-> r.table]
        ELSE IF r.raised = "KeyError"
             THEN [exc |-> FALSE, table |-> FallbackRates]
             ELSE [exc |-> TRUE, table |-> <<>>]

\* app.py:83-102: "except Exception" catches whatever the try block
\* raises, and the function returns the literal of :98-102.
get_currency_rates(resp) ==
    LET r == rates_try(resp)
    IN  IF r.raised = "none"
        THEN [exc |-> FALSE, table |-> r.table]
        ELSE [exc |-> FALSE, table |-> FallbackRates]

\* app.py:231
currencies(r) ==
    {k \in DOMAIN r : k # "timestamp"}

\* app.py:232
last_updated(r) ==
    r["timestamp"]

----------------------------------------------------------------------------
(* Inputs. *)

w_centimeter ==
    <<"c", "e", "n", "t", "i", "m", "e", "t", "e", "r">>

w_USD ==
    <<"U", "S", "D">>

w_PKR ==
    <<"P", "K", "R">>

w_apples ==
    <<"a", "p", "p", "l", "e", "s">>

w_5 ==
    <<"5">>

w_2_5 ==
    <<"2", ".", "5">>

w_5_5 ==
    <<"5", ".", "5">>

w_1_2_5 ==
    <<"1", ".", "2", ".", "5">>

w_sup2 ==
    <<"sup2">>

w_Meter ==
    <<"M", "e", "t", "e", "r">>

w_Centimeter ==
    <<"C", "e", "n", "t", "i", "m", "e", "t", "e", "r">>

\* The words the enumerated input texts are made of.
Words ==
    {kw_meter, w_centimeter, kw_usd, w_USD, kw_eur, kw_pkr,
     w_5, w_2_5, w_1_2_5, w_sup2, w_apples}

RECURSIVE Join(_)
Join(ws) ==
    IF ws = <<>> THEN <<>>
    ELSE IF Len(ws) = 1 THEN ws[1]
         ELSE ws[1] \o <<" ">> \o Join(Tail(ws))

\* "Convert 5 meters to centimeters"
ExampleMeters ==
    <<"C", "o", "n", "v", "e", "r", "t", " ", "5", " ", "m", "e", "t", "e",
      "r", "s", " ", "t", "o", " ", "c", "e", "n", "t", "i", "m", "e", "t",
      "e", "r", "s">>

\* "100 usd to eur"
ExampleUsdEur ==
    <<"1", "0", "0", " ", "u", "s", "d", " ", "t", "o", " ", "e", "u", "r">>

\* "100 USD to PKR"
ExampleUsdPkr ==
    <<"1", "0", "0", " ", "U", "S", "D", " ", "t", "o", " ", "P", "K", "R">>

\* "convert apples to oranges"
ExampleApples ==
    <<"c", "o", "n", "v", "e", "r", "t", " ", "a", "p", "p", "l", "e", "s",
      " ", "t", "o", " ", "o", "r", "a", "n", "g", "e", "s">>

ExampleTexts ==
    {ExampleMeters, ExampleUsdEur, ExampleUsdPkr, ExampleApples}

\* The input texts of the fallback harness: every text of at most MaxWords
\* words, and the texts the specification gives as examples.
Texts ==
    {Join(ws) : ws \in UNION {[1..k -> Words] : k \in 0..MaxWords}}
      \cup ExampleTexts

\* The texts typed into the chat input: a conversion the fallback can do,
\* one whose number ends the text, one with a U+00B2 token, one without
\* keywords.
ChatTexts ==
    {Join(<<w_5_5, w_centimeter>>), Join(<<w_centimeter, w_5_5>>),
     Join(<<w_centimeter, w_sup2>>), w_apples}

\* What the AI provider may answer.
AITexts ==
    {<<"5", "5", "0", " ", "c", "m">>, <<"I", "n", "v", "a", "l", "i", "d">>}

AIOutcomes ==
    {AIReturned(t) : t \in AITexts} \cup {AIFailed}

\* Bodies' "rates" members: absent, not an object, or an object.
LiveRatesA ==
    [USD |-> Rate(1, 0), EUR |-> Rate(92, 2), PKR |-> Rate(2801, 1)]

LiveRatesB ==
    [USD |-> Rate(1, 0), PKR |-> Rate(27850, 2), GBP |-> Rate(8, 1)]

RatesMembers ==
    {[kind |-> "absent", table |-> <<>>], [kind |-> "list", table |-> <<>>],
     [kind |-> "object", table |-> LiveRatesA],
     [kind |-> "object", table |-> LiveRatesB]}

TimeMembers ==
    {"absent", "Mon, 02 Nov 2026 00:02:31 +0000",
     "Tue, 03 Nov 2026 00:02:31 +0000"}

\* Every answer of the rate API the harness tries.
Responses ==
    [net : BOOLEAN, json : BOOLEAN, result : {"absent", "success", "error"},
     rates : RatesMembers, time : TimeMembers]

\* The answers tried in a script run: none, a refusal, two live ones.
RunResponses ==
    {r \in Responses :
        /\ r.json
        /\ r.rates.kind = "object"
        /\ r.time = "Mon, 02 Nov 2026 00:02:31 +0000"
        /\ \/ ~r.net /\ r.result = "success" /\ r.rates.table = LiveRatesA
           \/ r.net /\ r.result = "error" /\ r.rates.table = LiveRatesA
           \/ r.net /\ r.result = "success"}

----------------------------------------------------------------------------
(* The script, app.py:136-255.  Streamlit runs it from the top on every   *)
(* user interaction; st.session_state.messages and the widgets' values    *)
(* outlive a run, the script's variables do not.  A run is cut into steps *)
(* at its outbound calls.                                                 *)

NoEvent ==
    [kind |-> "none", text |-> <<>>]

NoShown ==
    [set |-> FALSE, exc |-> FALSE, text |-> <<>>]

NoAIResp ==
    [called |-> FALSE, ok |-> FALSE, text |-> <<>>]

NoRates ==
    [set |-> FALSE, table |-> <<>>]

Message(role, content) ==
    [role |-> role, content |-> content]

NumUserMessages ==
    Cardinality({i \in 1..Len(messages) : messages[i].role = "user"})

\* app.py:198  units["Length"], the two of them the form runs pick from
FormUnits ==
    {w_Meter, w_Centimeter}

\* app.py:212 and :240  the number_input's default value, 1.0
FormValue ==
    [m |-> 10, e |-> 1]

\* The currencies the form runs pick from, among the keys of rates.
FormCurrencies ==
    {"USD", "PKR"}

CurrencyName(k) ==
    IF k = "USD" THEN w_USD ELSE w_PKR

\* app.py:220 and :248  f"Convert {value} {from_unit} to {to_unit}"
FormPrompt(value, from, to) ==
    <<"C", "o", "n", "v", "e", "r", "t", " ">> \o FloatRepr(value) \o <<" ">>
      \o from \o <<" ", "t", "o", " ">> \o to

ResetRun ==
    /\ event' = NoEvent
    /\ ai_calls' = 0
    /\ rate_calls' = 0
    /\ fb_calls' = 0
    /\ ai_resp' = NoAIResp
    /\ shown' = NoShown
    /\ rates' = NoRates
    /\ uncaught' = FALSE

\* get_gemini_response has returned or raised r: what a caller without a
\* try block (app.py:177, :222) is left with.
Deliver(r, next) ==
    /\ shown' = [set |-> TRUE, exc |-> r.exc, text |-> r.text]
    /\ fb_calls' = fb_calls + r.fb
    /\ uncaught' = r.exc
    /\ pc' = IF r.exc THEN "aborted" ELSE next

\* app.py:164-177: the chat input holds text.  The user's message is
\* appended, then get_gemini_response runs up to its AI call, if any.
SubmitChat(text) ==
    /\ pc = "idle"
    /\ NumUserMessages < MaxChats
    /\ event' = [kind |-> "chat", text |-> text]
    /\ ai_calls' = generate_content_calls(GEMINI_API_KEY)
    /\ inflight' = inflight + generate_content_calls(GEMINI_API_KEY)
    /\ IF generate_content_calls(GEMINI_API_KEY) > 0
       THEN /\ messages' = Append(messages, Message("user", text))
            /\ pc' = "chat_ai"
            /\ UNCHANGED <<fb_calls, shown, uncaught>>
       ELSE LET r == get_gemini_response(create_ai_prompt(text),
                                         GEMINI_API_KEY, AIFailed)
            IN  /\ Deliver(r, "tab2")
                /\ messages' =
                     IF r.exc
                     THEN Append(messages, Message("user", text))
                     ELSE messages \o <<Message("user", text),
                                        Message("assistant", r.text)>>
    /\ UNCHANGED <<GEMINI_API_KEY, converter_type, rate_calls, ai_resp, rates,
                   fbVars, rateVars>>

\* ChatAIReturn with a second generate_content call after a failed one.
ChatAIReturnRetrying(ai) ==
    /\ pc = "chat_ai"
    /\ ai_resp' = [called |-> TRUE, ok |-> ai.ok, text |-> ai.text]
    /\ IF ~ai.ok /\ ai_calls < 2
       THEN /\ ai_calls' = ai_calls + 1
            /\ UNCHANGED <<inflight, messages, shown, fb_calls, uncaught, pc>>
       ELSE /\ inflight' = inflight - 1
            /\ ai_calls' = ai_calls
            /\ LET r == get_gemini_response(create_ai_prompt(event.text),
                                            GEMINI_API_KEY, ai)
               IN  /\ Deliver(r, "tab2")
                   /\ messages' =
                        IF r.exc THEN messages
                        ELSE Append(messages, Message("assistant", r.text))
    /\ UNCHANGED <<GEMINI_API_KEY, converter_type, event, rate_calls, rates,
                   fbVars, rateVars>>

\* app.py:77-81 and :177-183: the chat's AI call ends as ai.
ChatAIReturn(ai) ==
    /\ pc = "chat_ai"
    /\ inflight' = inflight - 1
    /\ ai_resp' = [called |-> TRUE, ok |-> ai.ok, text |-> ai.text]
    /\ LET r == get_gemini_response(create_ai_prompt(event.text),
                                    GEMINI_API_KEY, ai)
       IN  /\ Deliver(r, "tab2")
           /\ messages' = IF r.exc THEN messages
                          ELSE Append(messages, Message("assistant", r.text))
    /\ UNCHANGED <<GEMINI_API_KEY, converter_type, event, ai_calls,
                   rate_calls, rates, fbVars, rateVars>>

\* app.py:217: "Convert Units" is clicked (the button exists when the
\* unit converter is selected).  Tab 1 does nothing in this run.
ClickConvertUnits(from, to) ==
    /\ pc = "idle"
    /\ converter_type = "Unit Converter"
    /\ event' = [kind |-> "units", text |-> FormPrompt(FormValue, from, to)]
    /\ pc' = "tab2"
    /\ UNCHANGED <<GEMINI_API_KEY, converter_type, messages, ai_calls,
                   rate_calls, inflight, fb_calls, ai_resp, shown, rates,
                   uncaught, fbVars, rateVars>>

\* app.py:245: "Convert Currency" is clicked.
ClickConvertCurrency ==
    /\ pc = "idle"
    /\ converter_type = "Currency Converter"
    /\ event' = [kind |-> "currency", text |-> <<>>]
    /\ pc' = "tab2"
    /\ UNCHANGED <<GEMINI_API_KEY, converter_type, messages, ai_calls,
                   rate_calls, inflight, fb_calls, ai_resp, shown, rates,
                   uncaught, fbVars, rateVars>>

\* app.py:138: the sidebar radio is set to another converter.
SelectConverter(type) ==
    /\ pc = "idle"
    /\ type # converter_type
    /\ converter_type' = type
    /\ event' = [kind |-> "radio", text |-> <<>>]
    /\ pc' = "tab2"
    /\ UNCHANGED <<GEMINI_API_KEY, messages, ai_calls, rate_calls, inflight,
                   fb_calls, ai_resp, shown, rates, uncaught, fbVars,
                   rateVars>>

\* app.py:189-225: tab 2 of a run with the unit converter selected; the
\* button's branch runs up to its AI call, if any.
Tab2Units ==
    /\ pc = "tab2"
    /\ converter_type = "Unit Converter"
    /\ IF event.kind = "units"
       THEN /\ ai_calls' = ai_calls + generate_content_calls(GEMINI_API_KEY)
            /\ inflight' = inflight + generate_content_calls(GEMINI_API_KEY)
            /\ IF generate_content_calls(GEMINI_API_KEY) > 0
               THEN /\ pc' = "units_ai"
                    /\ UNCHANGED <<fb_calls, shown, uncaught>>
               ELSE Deliver(get_gemini_response(create_ai_prompt(event.text),
                                                GEMINI_API_KEY, AIFailed),
                            "done")
       ELSE /\ pc' = "done"
            /\ UNCHANGED <<ai_calls, inflight, fb_calls, shown, uncaught>>
    /\ UNCHANGED <<GEMINI_API_KEY, converter_type, messages, event,
                   rate_calls, ai_resp, rates, fbVars, rateVars>>

\* app.py:77-81 and :222-225: the unit form's AI call ends as ai.
UnitsAIReturn(ai) ==
    /\ pc = "units_ai"
    /\ inflight' = inflight - 1
    /\ ai_resp' = [called |-> TRUE, ok |-> ai.ok, text |-> ai.text]
    /\ Deliver(get_gemini_response(create_ai_prompt(event.text),
                                   GEMINI_API_KEY, ai), "done")
    /\ UNCHANGED <<GEMINI_API_KEY, converter_type, messages, event, ai_calls,
                   rate_calls, rates, fbVars, rateVars>>

\* app.py:227-230 and :88: tab 2 of a run with the currency converter
\* selected issues the rate request, whatever started the run.
Tab2Currency ==
    /\ pc = "tab2"
    /\ converter_type = "Currency Converter"
    /\ rate_calls' = rate_calls + 1
    /\ inflight' = inflight + 1
    /\ pc' = "rates_wait"
    /\ UNCHANGED <<GEMINI_API_KEY, converter_type, messages, event, ai_calls,
                   fb_calls, ai_resp, shown, rates, uncaught, fbVars,
                   rateVars>>

\* get_gemini_response has returned or raised r inside the try block of
\* app.py:246-255, whose except clause reports the exception.
DeliverCaught(r) ==
    /\ shown' = [set |-> TRUE, exc |-> r.exc, text |-> r.text]
    /\ fb_calls' = fb_calls + r.fb
    /\ uncaught' = FALSE
    /\ pc' = "done"

\* app.py:88-102 and :230-250: the rate request ends as resp; the button's
\* branch then runs up to its AI call, if any.
RatesReturn(resp, from, to) ==
    /\ pc = "rates_wait"
    /\ LET got == get_currency_rates(resp)
       IN  IF got.exc
           THEN /\ from = "USD"
                /\ to = "USD"
                /\ inflight' = inflight - 1
                /\ uncaught' = TRUE
                /\ pc' = "aborted"
                /\ UNCHANGED <<event, ai_calls, fb_calls, shown, rates>>
           ELSE /\ rates' = [set |-> TRUE, table |-> got.table]
                /\ from \in currencies(got.table)
                /\ to \in currencies(got.table)
                /\ IF event.kind = "currency"
                   THEN LET prompt == FormPrompt(FormValue, CurrencyName(from),
                                                 CurrencyName(to))
                        IN  /\ event' = [event EXCEPT !.text = prompt]
                            /\ ai_calls' = ai_calls
                                 + generate_content_calls(GEMINI_API_KEY)
                            /\ inflight' = inflight - 1
                                 + generate_content_calls(GEMINI_API_KEY)
                            /\ IF generate_content_calls(GEMINI_API_KEY) > 0
                               THEN /\ pc' = "currency_ai"
                                    /\ UNCHANGED <<fb_calls, shown, uncaught>>
                               ELSE DeliverCaught(
                                      get_gemini_response(
                                        create_ai_prompt(prompt),
                                        GEMINI_API_KEY, AIFailed))
                   ELSE /\ from = "USD"
                        /\ to = "USD"
                        /\ inflight' = inflight - 1
                        /\ pc' = "done"
                        /\ UNCHANGED <<event, ai_calls, fb_calls, shown,
                                       uncaught>>
    /\ UNCHANGED <<GEMINI_API_KEY, converter_type, messages, rate_calls,
                   ai_resp, fbVars, rateVars>>

\* app.py:77-81 and :250-255: the currency form's AI call ends as ai.
CurrencyAIReturn(ai) ==
    /\ pc = "currency_ai"
    /\ inflight' = inflight - 1
    /\ ai_resp' = [called |-> TRUE, ok |-> ai.ok, text |-> ai.text]
    /\ DeliverCaught(get_gemini_response(create_ai_prompt(event.text),
                                         GEMINI_API_KEY, ai))
    /\ UNCHANGED <<GEMINI_API_KEY, converter_type, messages, event, ai_calls,
                   rate_calls, rates, fbVars, rateVars>>

\* The run ends, at the script's last line or at an uncaught exception;
\* the next interaction starts from the session state and the widgets.
EndRun ==
    /\ pc \in {"done", "aborted"}
    /\ pc' = "idle"
    /\ ResetRun
    /\ UNCHANGED <<GEMINI_API_KEY, converter_type, messages, inflight,
                   fbVars, rateVars>>

HarnessIdle ==
    /\ fb_prompt = <<>>
    /\ fb_out = [done |-> FALSE, exc |-> FALSE, text |-> <<>>]
    /\ http_resp = [net |-> FALSE, json |-> FALSE, result |-> "absent",
                    rates |-> [kind |-> "absent", table |-> <<>>],
                    time |-> "absent"]
    /\ rates_out = [done |-> FALSE, exc |-> FALSE, table |-> <<>>]

ScriptIdle ==
    /\ converter_type = "Unit Converter"
    /\ messages = <<>>
    /\ pc = "idle"
    /\ event = NoEvent
    /\ ai_calls = 0
    /\ rate_calls = 0
    /\ inflight = 0
    /\ fb_calls = 0
    /\ ai_resp = NoAIResp
    /\ shown = NoShown
    /\ rates = NoRates
    /\ uncaught = FALSE

\* app.py:13, :138-141, :155-156: the key is read from the environment
\* once; the radio starts at its first option; the history starts empty.
Init ==
    /\ GEMINI_API_KEY \in BOOLEAN
    /\ ScriptIdle
    /\ HarnessIdle

Next ==
    \/ \E text \in ChatTexts : SubmitChat(text)
    \/ \E ai \in AIOutcomes : ChatAIReturn(ai)
    \/ \E from \in FormUnits, to \in FormUnits : ClickConvertUnits(from, to)
    \/ ClickConvertCurrency
    \/ \E type \in {"Unit Converter", "Currency Converter"} :
          SelectConverter(type)
    \/ Tab2Units
    \/ \E ai \in AIOutcomes : UnitsAIReturn(ai)
    \/ Tab2Currency
    \/ \E resp \in RunResponses, from \in FormCurrencies,
          to \in FormCurrencies : RatesReturn(resp, from, to)
    \/ \E ai \in AIOutcomes : CurrencyAIReturn(ai)
    \/ EndRun

Spec ==
    Init /\ [][Next]_vars

----------------------------------------------------------------------------
(* Harness of handle_conversion_fallback: one call on an input text. *)

FallbackCall ==
    /\ ~fb_out.done
    /\ LET r == handle_conversion_fallback(fb_prompt)
       IN  fb_out' = [done |-> TRUE, exc |-> r.exc, text |-> r.text]
    /\ UNCHANGED <<fb_prompt, uiVars, rateVars>>

InitFallback ==
    /\ GEMINI_API_KEY = FALSE
    /\ ScriptIdle
    /\ fb_prompt \in Texts
    /\ fb_out = [done |-> FALSE, exc |-> FALSE, text |-> <<>>]
    /\ http_resp = [net |-> FALSE, json |-> FALSE, result |-> "absent",
                    rates |-> [kind |-> "absent", table |-> <<>>],
                    time |-> "absent"]
    /\ rates_out = [done |-> FALSE, exc |-> FALSE, table |-> <<>>]

NextFallback ==
    FallbackCall

SpecFallback ==
    InitFallback /\ [][NextFallback]_vars

----------------------------------------------------------------------------
(* Harness of get_currency_rates: one call on an answer of the rate API. *)

RatesCall ==
    /\ ~rates_out.done
    /\ LET r == get_currency_rates(http_resp)
       IN  rates_out' = [done |-> TRUE, exc |-> r.exc, table |-> r.table]
    /\ UNCHANGED <<http_resp, uiVars, fbVars>>

InitRates ==
    /\ GEMINI_API_KEY = FALSE
    /\ ScriptIdle
    /\ fb_prompt = <<>>
    /\ fb_out = [done |-> FALSE, exc |-> FALSE, text |-> <<>>]
    /\ http_resp \in Responses
    /\ rates_out = [done |-> FALSE, exc |-> FALSE, table |-> <<>>]

NextRates ==
    RatesCall

SpecRates ==
    InitRates /\ [][NextRates]_vars

----------------------------------------------------------------------------
(* Vocabulary of the claims. *)

\* A token is numeric when it is made of decimal digits and at most one
\* '.', with at least one digit.
NumericToken(tok) ==
    /\ tok # <<>>
    /\ \A i \in 1..Len(tok) : tok[i] \in AsciiDigits \cup {"."}
    /\ Cardinality({i \in 1..Len(tok) : tok[i] = "."}) <= 1
    /\ Cardinality({i \in 1..Len(tok) : tok[i] \in AsciiDigits}) >= 1

\* The whitespace-separated tokens of a text.
Tokens(text) ==
    split(text)

HasNumericToken(text) ==
    \E i \in 1..Len(Tokens(text)) : NumericToken(Tokens(text)[i])

\* The value of the first numeric token of a text that has one.
FirstNumericValue(text) ==
    LET ts == Tokens(text)
        i0 == CHOOSE i \in 1..Len(ts) :
                  /\ NumericToken(ts[i])
                  /\ \A j \in 1..(i - 1) : ~NumericToken(ts[j])
    IN  float(ts[i0])

\* A text has a numeric token after its first one.
HasLaterNumericToken(text) ==
    Cardinality({i \in 1..Len(Tokens(text)) : NumericToken(Tokens(text)[i])}) >= 2

MatchesMeterRule(text) ==
    Contains(text, kw_meter) /\ Contains(text, kw_centimeter)

\* A text names a keyword however it is capitalised ("USD", "usd").
Names(text, kw) ==
    Contains(lower(text), kw)

\* The prompt the script hands to get_gemini_response for a request text.
WrappedPrompt(text) ==
    PromptHead \o text \o PromptTail

\* "5.0 meters = 500.0 centimeters"
Literal_5_meters ==
    <<"5", ".", "0", " ", "m", "e", "t", "e", "r", "s", " ", "=", " ", "5",
      "0", "0", ".", "0", " ", "c", "e", "n", "t", "i", "m", "e", "t", "e",
      "r", "s">>

\* "100.0 USD (approx) 27850.0 PKR"
Literal_100_usd_pkr ==
    <<"1", "0", "0", ".", "0", " ", "U", "S", "D", " ", "approx", " ", "2",
      "7", "8", "5", "0", ".", "0", " ", "P", "K", "R">>

----------------------------------------------------------------------------
(* C1 *)

\* C1: whenever a key is configured and the AI call of a request returned
\* normally, get_gemini_response returned exactly the text the AI returned
\* and handle_conversion_fallback was not invoked.
C1_PassThrough ==
    (shown.set /\ GEMINI_API_KEY /\ ai_resp.called /\ ai_resp.ok)
      => /\ ~shown.exc
         /\ shown.text = ai_resp.text
         /\ fb_calls = 0

\* A chat request answered by the AI, with a text that has capitals.
C1_Witness ==
    /\ shown.set /\ GEMINI_API_KEY /\ ai_resp.called /\ ai_resp.ok
    /\ event.kind = "chat"
    /\ shown.text = <<"I", "n", "v", "a", "l", "i", "d">>

----------------------------------------------------------------------------
(* C2 *)

\* C2 as stated: without a key no AI call is made and the result is the
\* fallback's output for the request's own text (the chat text or the
\* form-built instruction), not for the template wrapped around it.
C2_FallbackOnRequestText ==
    (shown.set /\ ~GEMINI_API_KEY)
      => /\ ai_calls = 0
         /\ ~ai_resp.called
         /\ LET r == handle_conversion_fallback(event.text)
            IN  shown.exc = r.exc /\ shown.text = r.text

\* C2 amended: without a key no AI call is made, the fallback is invoked
\* once, and the outcome is the fallback's outcome for the instruction
\* template wrapped around the request's text.
C2_FallbackOnWrappedPrompt ==
    (shown.set /\ ~GEMINI_API_KEY)
      => /\ ai_calls = 0
         /\ ~ai_resp.called
         /\ fb_calls = 1
         /\ LET r == handle_conversion_fallback(WrappedPrompt(event.text))
            IN  shown.exc = r.exc /\ shown.text = r.text

\* Without a key, a chat text whose number is its last token: the fallback
\* converts the text itself, and answers the wrapped prompt with the
\* advisory.
C2_Witness ==
    /\ shown.set /\ ~GEMINI_API_KEY /\ event.kind = "chat"
    /\ ai_calls = 0 /\ fb_calls = 1
    /\ shown.text = AdvisoryText
    /\ handle_conversion_fallback(event.text).text # AdvisoryText

----------------------------------------------------------------------------
(* C3 *)

\* C3: for a text that contains "meter" and "centimeter" and has a numeric
\* token, the fallback returns "<v> meters = <v*100> centimeters" for the
\* value v of the first numeric token; "Convert 5 meters to centimeters"
\* gives "5.0 meters = 500.0 centimeters".
C3_MeterRule ==
    fb_out.done =>
      /\ (MatchesMeterRule(fb_prompt) /\ HasNumericToken(fb_prompt))
           => /\ ~fb_out.exc
              /\ fb_out.text = MeterResult(FirstNumericValue(fb_prompt))
      /\ fb_prompt = ExampleMeters
           => (~fb_out.exc /\ fb_out.text = Literal_5_meters)

\* C3 holds of every call that returns: the value is that of the first
\* numeric token, also when a later one exists.
C3_WhenTheCallReturns ==
    (fb_out.done /\ ~fb_out.exc) => C3_MeterRule

\* A meter conversion of a text with two numeric tokens.
C3_ReachedWithTwoNumbers ==
    /\ fb_out.done /\ ~fb_out.exc
    /\ MatchesMeterRule(fb_prompt)
    /\ HasLaterNumericToken(fb_prompt)
    /\ fb_out.text = MeterResult(FirstNumericValue(fb_prompt))

----------------------------------------------------------------------------
(* C4 *)

\* C4: for a text that names US dollars ("dollar" or "usd", written as in
\* "100 USD to PKR"), no euro keyword and PKR ("pkr" or "rupee"), that does
\* not match the meter rule and whose first numeric token has value v, the
\* fallback returns "<v> USD (approx) <v*278.50> PKR"; "100 USD to PKR"
\* gives "100.0 USD (approx) 27850.0 PKR".
C4_UsdToPkr ==
    fb_out.done =>
      /\ ( /\ Names(fb_prompt, kw_dollar) \/ Names(fb_prompt, kw_usd)
           /\ ~Names(fb_prompt, kw_eur)
           /\ Names(fb_prompt, kw_pkr) \/ Names(fb_prompt, kw_rupee)
           /\ ~MatchesMeterRule(fb_prompt)
           /\ HasNumericToken(fb_prompt) )
           => /\ ~fb_out.exc
              /\ fb_out.text = PkrResult(FirstNumericValue(fb_prompt))
      /\ fb_prompt = ExampleUsdPkr
           => (~fb_out.exc /\ fb_out.text = Literal_100_usd_pkr)

\* C4 holds of the calls that return when the keywords are required in
\* lower case, as the code tests them.
C4_LowerCaseKeywords ==
    ( /\ fb_out.done /\ ~fb_out.exc
      /\ Contains(fb_prompt, kw_dollar) \/ Contains(fb_prompt, kw_usd)
      /\ ~Contains(fb_prompt, kw_eur)
      /\ Contains(fb_prompt, kw_pkr) \/ Contains(fb_prompt, kw_rupee)
      /\ ~MatchesMeterRule(fb_prompt)
      /\ HasNumericToken(fb_prompt) )
      => fb_out.text = PkrResult(FirstNumericValue(fb_prompt))

----------------------------------------------------------------------------
(* C5 *)

\* A text matches a keyword rule: meter and centimeter, or a dollar keyword
\* with a euro or a PKR keyword.
MatchesSomeRule(text) ==
    \/ MatchesMeterRule(text)
    \/ /\ Contains(text, kw_dollar) \/ Contains(text, kw_usd)
       /\ \/ Contains(text, kw_euro) \/ Contains(text, kw_eur)
          \/ Contains(text, kw_pkr) \/ Contains(text, kw_rupee)

\* C5: for a text without a numeric token, whatever its keywords, and for
\* a text that matches no keyword rule, the fallback returns the advisory
\* as an ordinary value; no conversion string is produced without a
\* numeric token.
C5_Advisory ==
    fb_out.done =>
      /\ (~HasNumericToken(fb_prompt) \/ ~MatchesSomeRule(fb_prompt))
           => (~fb_out.exc /\ fb_out.text = AdvisoryText)
      /\ (~fb_out.exc /\ fb_out.text # AdvisoryText)
           => HasNumericToken(fb_prompt)

\* C5 holds of every call that returns.
C5_WhenTheCallReturns ==
    (fb_out.done /\ ~fb_out.exc) => C5_Advisory

----------------------------------------------------------------------------
(* C6 *)

\* The rate request failed: the request raised, the body is not JSON, its
\* result member is absent or not "success", or a member is missing or
\* malformed.
RateRequestFailed(resp) ==
    \/ ~resp.net
    \/ ~resp.json
    \/ resp.result # "success"
    \/ resp.rates.kind # "object"
    \/ resp.time = "absent"

\* The fixed fallback table of the specification.
ClaimedFallbackTable ==
    [USD |-> Rate(1, 0), EUR |-> Rate(93, 2), GBP |-> Rate(79, 2),
     JPY |-> Rate(15034, 2), CAD |-> Rate(135, 2), AUD |-> Rate(153, 2),
     CNY |-> Rate(721, 2), INR |-> Rate(8312, 2), PKR |-> Rate(2785, 1)]

SameRate(x, y) ==
    /\ x.t = "float" /\ y.t = "float"
    /\ Normalize([m |-> x.m, e |-> x.e]) = Normalize([m |-> y.m, e |-> y.e])

\* C6: on every failure of the rate request get_currency_rates raises
\* nothing and returns the nine fixed rates, USD being 1.0, with the
\* provenance marked as cached; a live result never carries that mark.
C6_FallbackTable ==
    rates_out.done =>
      /\ ~rates_out.exc
      /\ RateRequestFailed(http_resp) =>
           /\ currencies(rates_out.table) = DOMAIN ClaimedFallbackTable
           /\ \A k \in DOMAIN ClaimedFallbackTable :
                 SameRate(rates_out.table[k], ClaimedFallbackTable[k])
           /\ SameRate(rates_out.table["USD"], Rate(1, 0))
           /\ last_updated(rates_out.table) = Str(CachedStamp)
      /\ ~RateRequestFailed(http_resp) =>
           /\ last_updated(rates_out.table) # Str(CachedStamp)
           /\ currencies(rates_out.table) = DOMAIN http_resp.rates.table

\* The API answered with a result that is not "success".
C6_Witness ==
    /\ rates_out.done
    /\ http_resp.net /\ http_resp.json /\ http_resp.result = "error"
    /\ http_resp.rates.kind = "object" /\ http_resp.time # "absent"
    /\ last_updated(rates_out.table) = Str(CachedStamp)

----------------------------------------------------------------------------
(* C7 *)

\* C7: the mapping from currency codes to rates that get_currency_rates
\* returns never has the provenance field's key among its keys.
C7_ProvenanceOutOfBand ==
    rates_out.done => "timestamp" \notin DOMAIN rates_out.table

----------------------------------------------------------------------------
(* C8 *)

\* C8: get_gemini_response always returns a string to display; neither it
\* nor handle_conversion_fallback raises, and no exception reaches the
\* script's top level.
C8_ResolveTotal ==
    /\ shown.set => ~shown.exc
    /\ ~uncaught

----------------------------------------------------------------------------
(* C9 *)

\* C9 as stated: a user action triggers at most one outbound call, AI and
\* rate calls counted together, and at most one call is in flight.
C9_AtMostOneCall ==
    /\ ai_calls + rate_calls <= 1
    /\ inflight <= 1

\* C9 amended: a user action triggers at most one AI call and at most one
\* rate call, at most one call in total while the unit converter is
\* selected, and at most one call is in flight.
C9_OneCallPerProvider ==
    /\ ai_calls <= 1
    /\ rate_calls <= 1
    /\ converter_type = "Unit Converter" => ai_calls + rate_calls <= 1
    /\ inflight \in {0, 1}
    /\ pc \in {"idle", "done", "aborted", "tab2"} => inflight = 0

\* A chat message sent while the currency converter is selected: the run
\* has called the AI and the rate API.
C9_Witness ==
    /\ event.kind = "chat"
    /\ converter_type = "Currency Converter"
    /\ ai_calls = 1 /\ rate_calls = 1
    /\ pc = "done"

----------------------------------------------------------------------------
(* C10 *)

\* What get_gemini_response may return for a chat text.
ResolveResults(text) ==
    LET r == handle_conversion_fallback(WrappedPrompt(text))
    IN  (IF GEMINI_API_KEY THEN AITexts ELSE {})
          \cup (IF r.exc THEN {} ELSE {r.text})

\* C10: once a submission has been handled the history consists of
\* complete user/assistant pairs, each assistant entry holding the result
\* get_gemini_response produced for the user entry before it.
C10_CompletePairs ==
    pc = "idle" =>
      /\ Len(messages) % 2 = 0
      /\ \A i \in 1..Len(messages) :
            messages[i].role = (IF i % 2 = 1 THEN "user" ELSE "assistant")
      /\ \A i \in 1..Len(messages) :
            i % 2 = 0 =>
              messages[i].content \in ResolveResults(messages[i - 1].content)

\* The history is only appended to.
C10_AppendOnly ==
    [][/\ Len(messages') >= Len(messages)
       /\ SubSeq(messages', 1, Len(messages)) = messages]_vars

====
